---- MODULE Spec2Model ----
(***************************************************************************)
(* A model of PasswordSafeClient (bt_passwordsafe_api/client.py): the      *)
(* session manager (authenticate, _ensure_authenticated) and the checkout  *)
(* coordinator (get_managed_account_password_by_id and its conflict        *)
(* recovery, get_managed_account_password_by_request_id), run by several   *)
(* callers that share one client, against a vault whose answers are        *)
(* chosen nondeterministically.                                            *)
(*                                                                         *)
(* Text is a sequence of tokens; every digit is a token of its own, so     *)
(* that Python's substring test ("409" in str(ex)) is computed.            *)
(***************************************************************************)
EXTENDS Integers, Sequences, FiniteSets, TLC

\* ------------------------------------------------------------- bounds
MaxCalls == 2       \* operations invoked on the client in one behaviour
MaxSoloCalls == 1   \* operations the single caller of the checkout runs invokes
MaxTicks == 1       \* times the clock advances in one behaviour
MaxSignOutCalls == 3   \* invocations of a run with sign-out
MaxLockCalls == 3   \* invocations of authenticate in a run of the lock
MaxActive == 2      \* active requests the vault lists for the account

Callers == {"c1", "c2"}

\* ------------------------------------------------- program constants
Margin == 300           \* timedelta(minutes=5), in seconds
KeyLifetime == 3600     \* expires_in of an API key session

\* ------------------------------------------------------------- text
S409 == <<"4", "0", "9">>
S404 == <<"4", "0", "4">>
S500 == <<"5", "0", "0">>
NoText == <<>>

\* "sub in s" of Python, on token sequences
Contains(s, sub) ==
    \E i \in 1..(Len(s) - Len(sub) + 1) : SubSeq(s, i, i + Len(sub) - 1) = sub

\* content.strip('"'): every leading and trailing quote is removed
RECURSIVE LStripQuotes(_)
LStripQuotes(s) ==
    IF s # <<>> /\ Head(s) = "\"" THEN LStripQuotes(Tail(s)) ELSE s

RECURSIVE RStripQuotes(_)
RStripQuotes(s) ==
    IF s # <<>> /\ s[Len(s)] = "\"" THEN RStripQuotes(SubSeq(s, 1, Len(s) - 1)) ELSE s

StripQuotes(s) == RStripQuotes(LStripQuotes(s))

\* the base URLs a client may be configured with
BaseUrls == { <<"https://pam.example">>,
              <<"https://pam.example:", "4", "0", "9", "0">> }

\* ----------------------------------------------------- HTTP failures
\* What a network call can end with besides success: a status that
\* raise_for_status() turns into HTTPError, or a transport failure.
HttpErrors == {S500}
Timeout == <<"timeout">>

\* str() of the requests exception: an HTTPError names the status and the
\* URL, a transport failure names the host the URL starts with.
RequestErrorText(cause, url) ==
    IF cause = Timeout
    THEN <<"HTTPSConnectionPool(host=", Head(url), "): Read timed out.">>
    ELSE cause \o <<" Error for url: ">> \o url

\* ------------------------------------------------------- exceptions
ApiException == "BeyondTrustApiException"
AuthException == "BeyondTrustAuthenticationException"
ValueError == "ValueError"
AttributeError == "AttributeError"

\* BeyondTrustAuthenticationException derives from BeyondTrustApiException
IsApiException(kind) == kind \in {ApiException, AuthException}

NoExc == [kind |-> "none", origin |-> "none", msg |-> NoText, cause |-> NoText]
Exc(kind, origin, msg, cause) ==
    [kind |-> kind, origin |-> origin, msg |-> msg, cause |-> cause]

\* ------------------------------------------------------------ session
NoRefreshToken == "none"        \* refresh_token=None
NoSession == [access_token |-> "none", token_type |-> "none", issued_at |-> 0,
              expires_in |-> 0, refresh_token |-> NoRefreshToken, obj |-> 0]

ApiKey == "api_key"             \* options.api_key
BearerToken == "access_token"   \* the access_token of a token response

\* the key session as it would be with the lifetime of a token response
\* that declares none
KeySessionUndeclared(t, n) ==
    [access_token |-> ApiKey, token_type |-> "PS-Auth", issued_at |-> t,
     expires_in |-> 0, refresh_token |-> NoRefreshToken, obj |-> n]

\* AuthenticationResult(access_token=api_key, token_type="PS-Auth",
\* expires_in=3600), the n-th session of the client, issued at t
KeySession(t, n) ==
    [access_token |-> ApiKey, token_type |-> "PS-Auth", issued_at |-> t,
     expires_in |-> KeyLifetime, refresh_token |-> NoRefreshToken, obj |-> n]

\* AuthenticationResult.expires_at
expires_at(s) == s.issued_at + s.expires_in

\* is_expired as it would be with a strict comparison
is_expired_strict(s, t) == t + Margin > expires_at(s)

\* AuthenticationResult.is_expired, read at time t
is_expired(s, t) == t + Margin >= expires_at(s)

\* the session check as it would be if it never accepted a session
NeedsAuthAlways(s, t) == TRUE

\* "not self._auth_result or self._auth_result.is_expired"
NeedsAuth(s, t) == s = NoSession \/ is_expired(s, t)

\* the token responses of the vault: expires_in may be missing
TokenResponses == { [has_expires_in |-> FALSE, expires_in |-> 0],
                    [has_expires_in |-> TRUE, expires_in |-> 300],
                    [has_expires_in |-> TRUE, expires_in |-> 3600] }

\* token responses that hold a refresh token
RefreshToken == "rt-1"
RefreshResponses == { [has_expires_in |-> TRUE, expires_in |-> 300,
                       refresh_token |-> RefreshToken],
                      [has_expires_in |-> TRUE, expires_in |-> 3600,
                       refresh_token |-> RefreshToken] }

\* auth_data.get('refresh_token')
GetRefreshToken(resp) ==
    IF "refresh_token" \in DOMAIN resp THEN resp.refresh_token ELSE NoRefreshToken

\* the token request as it would be if the flag and a held refresh token
\* made it a refresh
TokenGrantRefreshing(flag, s) ==
    IF flag /\ s.refresh_token # NoRefreshToken
    THEN <<"refresh_token">>
    ELSE <<"client_credentials">>

\* form_data['grant_type'] of the token request, sent by a client with the
\* given auto_refresh_token that holds session s
TokenGrant(flag, s) == <<"client_credentials">>

\* int(auth_data.get('expires_in', 0))
DeclaredLifetime(resp) == IF resp.has_expires_in THEN resp.expires_in ELSE 0

\* token responses with status 200 that hold no token: a body that is not
\* JSON, the JSON array [], and documents whose expires_in is the text "soon"
\* or null
BadTokenBodies == {"not JSON", "array", "text lifetime", "null lifetime"}

\* What reading such a response raises. response.json() raises the JSON
\* error of the HTTP library, which either except clause of the token
\* exchange catches, by the library's version; .get on a list raises
\* AttributeError and int() raises ValueError or TypeError, outside the try.
TokenUnreadable(body) ==
    CASE body = "not JSON" ->
           {[kind |-> AuthException, origin |-> o, msg |-> <<o>>,
             cause |-> <<"JSONDecodeError">>] :
               o \in {"OAuth authentication failed: ",
                      "Failed to parse authentication response"}}
      [] body = "array" ->
           {[kind |-> AttributeError, origin |-> "'list' object has no attribute 'get'",
             msg |-> NoText, cause |-> NoText]}
      [] body = "text lifetime" ->
           {[kind |-> ValueError, origin |-> "invalid literal for int() with base 10: 'soon'",
             msg |-> NoText, cause |-> NoText]}
      [] OTHER ->
           {[kind |-> "TypeError", origin |-> "int() argument must be a string or a number",
             msg |-> NoText, cause |-> NoText]}

\* ------------------------------------------------------------ records
None == -1      \* Python's None in a numeric or date field
Absent == -2    \* a key the JSON document does not hold

\* the managed account of the vault and its system
AccountId == 42
SystemId == 7
AccountIdText == <<"4", "2">>
OtherAccountId == 43
OtherSystemId == 8
MaxListed == 2      \* objects in an array the vault answers a listing with

\* the documents the vault may answer an account lookup with: the canonical
\* id fields, or the secondary ones only
AccountDocs ==
    { [ManagedAccountId |-> AccountId, AccountId |-> Absent,
       ManagedSystemId |-> SystemId, SystemId |-> Absent],
      [ManagedAccountId |-> Absent, AccountId |-> AccountId,
       ManagedSystemId |-> Absent, SystemId |-> SystemId] }

\* further documents of the vault: the canonical fields sent as zero beside
\* set secondary ones, both set and different, the system id null, and no
\* system id at all
ZeroCanonicalDoc ==
    [ManagedAccountId |-> 0, AccountId |-> AccountId,
     ManagedSystemId |-> 0, SystemId |-> SystemId]
BothIdsDoc ==
    [ManagedAccountId |-> AccountId, AccountId |-> OtherAccountId,
     ManagedSystemId |-> SystemId, SystemId |-> OtherSystemId]
NullSystemDoc ==
    [ManagedAccountId |-> AccountId, AccountId |-> AccountId,
     ManagedSystemId |-> None, SystemId |-> SystemId]
NoSystemDoc ==
    [ManagedAccountId |-> AccountId, AccountId |-> Absent,
     ManagedSystemId |-> Absent, SystemId |-> Absent]

RecordDocs == AccountDocs \cup {ZeroCanonicalDoc, BothIdsDoc, NullSystemDoc, NoSystemDoc}

\* the documents of managed systems
SystemDocs ==
    { [ManagedSystemId |-> SystemId, SystemId |-> Absent],
      [ManagedSystemId |-> Absent, SystemId |-> SystemId],
      [ManagedSystemId |-> 0, SystemId |-> SystemId] }

\* no response body read yet
NoBody == [shape |-> "none"]

\* a JSON response body: one object, or an array of objects
ObjectBody(doc) == [shape |-> "dict", doc |-> doc]
ArrayOf(docs) == [shape |-> "list", docs |-> docs]

\* the bodies a listing may be answered with, over the documents ds
ListingBodies(ds) ==
    {ObjectBody(doc) : doc \in ds}
        \cup {ArrayOf(l) : l \in UNION {[1..n -> ds] : n \in 0..MaxListed}}

Get(v, default) == IF v = Absent THEN default ELSE v

\* ManagedSystem.from_dict: the secondary id fills an absent canonical key
system_from_dict(doc) ==
    [managed_system_id |->
        IF doc.ManagedSystemId = Absent /\ doc.SystemId # Absent
        THEN doc.SystemId ELSE Get(doc.ManagedSystemId, 0),
     system_id |-> Get(doc.SystemId, 0)]

\* ManagedAccount.from_dict: the secondary id fills an absent canonical key
from_dict(doc) ==
    [managed_account_id |->
        IF doc.ManagedAccountId = Absent /\ doc.AccountId # Absent
        THEN doc.AccountId ELSE Get(doc.ManagedAccountId, 0),
     account_id |-> Get(doc.AccountId, 0),
     managed_system_id |->
        IF doc.ManagedSystemId = Absent /\ doc.SystemId # Absent
        THEN doc.SystemId ELSE Get(doc.ManagedSystemId, 0),
     system_id |-> Get(doc.SystemId, 0)]

\* "account.account_id > 0": comparing None with 0 raises TypeError
ReconcileRaises(a) == a.account_id = None \/ a.system_id = None

\* the single-account lookups as they would be without the reconciliation
ReconcileNever(a) == a

\* the id reconciliation of get_managed_account_by_id and
\* get_managed_account_by_name
Reconcile(a) ==
    [a EXCEPT
       !.managed_account_id =
           IF a.account_id > 0 /\ a.managed_account_id = 0 THEN a.account_id ELSE @,
       !.managed_system_id =
           IF a.system_id > 0 /\ a.managed_system_id = 0 THEN a.system_id ELSE @]

NoAccount == [managed_account_id |-> 0, account_id |-> 0,
              managed_system_id |-> 0, system_id |-> 0]

\* PasswordRequestResult.is_expired and ManagedPassword.is_expired, the same
\* code: no expiration date counts as expired, otherwise
\* "datetime.utcnow() > expiration"
result_is_expired(exp, t) == exp = None \/ t > exp

\* the property is_expired of a result, not read yet
Unread == [value |-> "unread", at |-> 0]

\* PasswordSafeOptions: the fields validate() looks at, as present or not
\* (None and "" are both "not present"), and the flag use_oauth
OptionsSpace ==
    [base_url : BOOLEAN, api_key : BOOLEAN, run_as_username : BOOLEAN,
     run_as_password : BOOLEAN, use_oauth : BOOLEAN,
     oauth_client_id : BOOLEAN, oauth_client_secret : BOOLEAN]

NoOptions ==
    [base_url |-> FALSE, api_key |-> FALSE, run_as_username |-> FALSE,
     run_as_password |-> FALSE, use_oauth |-> FALSE,
     oauth_client_id |-> FALSE, oauth_client_secret |-> FALSE]

\* validate() as it would be if it required the API key and the run-as user
\* name in both modes
validate_both_modes(o) ==
    IF ~o.base_url THEN "base_url is required"
    ELSE IF ~o.run_as_username THEN "run_as_username is required when use_oauth is False"
    ELSE IF ~o.api_key THEN "api_key is required"
    ELSE IF o.use_oauth /\ ~o.oauth_client_id
         THEN "oauth_client_id is required when use_oauth is True"
    ELSE IF o.use_oauth /\ ~o.oauth_client_secret
         THEN "oauth_client_secret is required when use_oauth is True"
    ELSE ""

\* PasswordSafeOptions.validate: the message of the ValueError, or ""
validate(o) ==
    IF ~o.base_url THEN "base_url is required"
    ELSE IF o.use_oauth
         THEN IF ~o.oauth_client_id
              THEN "oauth_client_id is required when use_oauth is True"
              ELSE IF ~o.oauth_client_secret
                   THEN "oauth_client_secret is required when use_oauth is True"
                   ELSE ""
         ELSE IF ~o.run_as_username
              THEN "run_as_username is required when use_oauth is False"
              ELSE IF ~o.api_key
                   THEN "api_key is required"
                   ELSE ""

\* PasswordRequestResult, as far as the client reads it
NoRequest == [request_id |-> NoText, expiration_date |-> None]

\* ManagedPassword
NoPassword == [password |-> NoText, request_id |-> NoText, account_id |-> None,
               system_id |-> None, expiration_date |-> None]

ManagedPassword(pw, rid, acct, sys, exp) ==
    [password |-> pw, request_id |-> rid, account_id |-> acct,
     system_id |-> sys, expiration_date |-> exp]

\* str() of an id of the model
IdText(n) ==
    CASE n = None -> <<"None">>
      [] n = AccountId -> AccountIdText
      [] n = SystemId -> <<"7">>
      [] OTHER -> <<"0">>

\* ManagedPassword.__str__
Render(p) ==
    <<"Password for account ID: ">> \o IdText(p.account_id)
        \o <<" (Request ID: ">> \o p.request_id \o <<")">>

\* ------------------------------------------------ fetch response body
Secret == <<"abc123">>
Quote == "\""

\* the shapes of a successful fetch response body: {"Password":"abc123"},
\* "abc123" and abc123
DocumentBody == <<"{", Quote, "Password", Quote, ":", Quote>> \o Secret \o <<Quote, "}">>
QuotedBody == <<Quote>> \o Secret \o <<Quote>>
BareBody == Secret
Bodies == {DocumentBody, QuotedBody, BareBody}

\* successful fetch response bodies that hold no password: the documents {}
\* and {"Other":"x"}, the number 123, null and the array []
EmptyDocument == <<"{", "}">>
OtherDocument == <<"{", Quote, "Other", Quote, ":", Quote, "x", Quote, "}">>
NumberBody == <<"1", "2", "3">>
NullBody == <<"null">>
ArrayBody == <<"[", "]">>
ShapeBodies == {EmptyDocument, OtherDocument, NumberBody, NullBody, ArrayBody}

Digits == {"0", "1", "2", "3", "4", "5", "6", "7", "8", "9"}

\* json.loads(content), as far as the client depends on it: the type of the
\* value it returns (a document, a JSON string, a number, null, an array), or
\* JSONDecodeError
JsonKind(content) ==
    IF content # <<>> /\ Head(content) = "{" /\ content[Len(content)] = "}"
    THEN "dict"
    ELSE IF /\ Len(content) >= 2 /\ Head(content) = Quote /\ content[Len(content)] = Quote
            /\ \A i \in 2..(Len(content) - 1) : content[i] # Quote
    THEN "str"
    ELSE IF content # <<>> /\ \A i \in 1..Len(content) : content[i] \in Digits
    THEN "int"
    ELSE IF content = NullBody
    THEN "NoneType"
    ELSE IF content # <<>> /\ Head(content) = "[" /\ content[Len(content)] = "]"
    THEN "list"
    ELSE "JSONDecodeError"

\* successful fetch response bodies that are no JSON value: abc123, "abc123,
\* abc123"", ""abc123"" and ""abc123"
OpenQuoteBody == <<Quote>> \o Secret
TwoClosingBody == Secret \o <<Quote, Quote>>
DoubledBody == <<Quote, Quote>> \o Secret \o <<Quote, Quote>>
UnevenBody == <<Quote, Quote>> \o Secret \o <<Quote>>
LiteralBodies == {BareBody, OpenQuoteBody, TwoClosingBody, DoubledBody, UnevenBody}

\* password_data.get('Password', '') of a document
DocPassword(content) ==
    IF Len(content) >= 8 /\ content[3] = "Password"
    THEN SubSeq(content, 7, Len(content) - 2)
    ELSE NoText

\* ================================================================ state
VARIABLES
    use_oauth,      \* options.use_oauth
    base_url,       \* options.base_url
    auth_result,    \* client._auth_result
    auth_lock,      \* the caller inside "with self._auth_lock", or NoCaller
    now,            \* datetime.utcnow(), in seconds
    ticks,          \* times the clock advanced
    active,         \* the vault: the active requests of the account, oldest first
    issued,         \* the vault: request ids given out so far
    th,             \* per caller: the operation it runs and where it is
    ncalls,         \* operations invoked so far
    attempts,       \* history: authentication attempts started
    auth_failed,    \* history: authentication attempts that failed
    born_expired,   \* history: sessions installed that were expired at once
    half_open,      \* history: the last attempt failed at the app sign-in
    transport,      \* client._session, and the "with" block around the client
    signed_out,     \* history: a sign-out succeeded and no authentication since
    auto_refresh_token  \* options.auto_refresh_token

vars == <<use_oauth, base_url, auth_result, auth_lock, now, ticks, active, issued,
          th, ncalls, attempts, auth_failed, born_expired, half_open, transport,
          signed_out, auto_refresh_token>>

\* the pooled transport of a client just built: session is client._session
\* ("open", or "none" for None), closes counts the runs of Session.close(),
\* scope is where the "with" block stands and reached the exception that
\* left it
OpenTransport == [session |-> "open", closes |-> 0, scope |-> "none", reached |-> NoExc]

NoCaller == "nobody"
S200 == <<"2", "0", "0">>

NoResult == [kind |-> "none", session |-> NoSession, password |-> NoPassword,
             account |-> NoAccount, items |-> <<>>, exc |-> NoExc, at |-> 0]

IdleThread ==
    [pc |-> "idle", apc |-> "none", op |-> "none", arg |-> NoText,
     account |-> NoAccount, req |-> NoRequest, created |-> NoRequest, exc |-> NoExc,
     listed |-> <<>>, content |-> NoText, body |-> NoBody, fresh |-> FALSE,
     options |-> NoOptions, is_expired |-> Unread,
     result |-> NoResult, calls |-> <<>>, tried |-> 0]

\* PasswordSafeClient.__init__: no session, the lock free
\* a client built from options whose auto_refresh_token is one of flags
InitClient(flags) ==
    /\ auto_refresh_token \in flags
    /\ use_oauth \in BOOLEAN
    /\ base_url \in BaseUrls
    /\ auth_result = NoSession
    /\ auth_lock = NoCaller
    /\ now = 0
    /\ ticks = 0
    /\ active = <<>>
    /\ issued = 0
    /\ th = [c \in Callers |-> IdleThread]
    /\ ncalls = 0
    /\ attempts = 0
    /\ auth_failed = 0
    /\ born_expired = 0
    /\ half_open = FALSE
    /\ transport = OpenTransport
    /\ signed_out = FALSE

\* auto_refresh_token=True is the default of PasswordSafeOptions
Init == InitClient({TRUE})

\* ------------------------------------------------------ control flow
\* one line of the call log of an invocation
Logged(t, call, key, out) ==
    [t EXCEPT !.calls = Append(@, [call |-> call, key |-> key, out |-> out])]

Returned(t, res) == [t EXCEPT !.pc = "done", !.apc = "none", !.result = res]

ReturnSession(t, s, at) ==
    Returned(t, [NoResult EXCEPT !.kind = "session", !.session = s, !.at = at])

ReturnPassword(t, p, at) ==
    Returned(t, [NoResult EXCEPT !.kind = "password", !.password = p, !.at = at])

ReturnAccount(t, a, at) ==
    Returned(t, [NoResult EXCEPT !.kind = "account", !.account = a, !.at = at])

\* a listing returns the list of its records
ReturnList(t, l, at) ==
    Returned(t, [NoResult EXCEPT !.kind = "list", !.items = l, !.at = at])

\* "return True"
ReturnTrue(t, at) == Returned(t, [NoResult EXCEPT !.kind = "true", !.at = at])

Propagate(t, e, at) ==
    Returned(t, [NoResult EXCEPT !.kind = "raise", !.exc = e, !.at = at])

\* "except BeyondTrustApiException as ex: if "409" in str(ex)"
IsConflict(e) == IsApiException(e.kind) /\ Contains(e.msg, S409)

\* An exception raised where the caller stands: inside the try block of
\* get_managed_account_password_by_id a conflict starts the recovery, every
\* other exception leaves the operation.
Raise(t, e, at) ==
    IF t.pc \in {"create", "fetch"} /\ IsConflict(e)
    THEN [t EXCEPT !.pc = "query", !.apc = "ensure", !.exc = e]
    ELSE Propagate(t, e, at)

\* every password operation as it would be if it resolved the account first
ProceedThroughLookup(t) ==
    IF t.pc = "begin"
    THEN [t EXCEPT !.pc = "resolve", !.apc = "ensure"]
    ELSE [t EXCEPT !.apc = "ready"]

\* _ensure_authenticated returned: the caller goes on with its operation
Proceed(t) ==
    IF t.pc = "begin"
    THEN CASE t.op = "get_managed_account_password_by_id" ->
                [t EXCEPT !.pc = "resolve", !.apc = "ensure"]
           [] t.op = "check_in_password" ->
                [t EXCEPT !.pc = "checkin", !.apc = "ready"]
           [] OTHER ->
                [t EXCEPT !.pc = "fetch_rid", !.apc = "ready"]
    ELSE [t EXCEPT !.apc = "ready"]

\* authenticate returned session s
AuthReturn(t, s, at) ==
    IF t.op = "authenticate" THEN ReturnSession(t, s, at) ELSE Proceed(t)

Url(path) == base_url \o path

\* what a failed network call raises: the message is the prefix and str(ex)
RequestFailed(kind, prefix, cause, url) ==
    Exc(kind, prefix, <<prefix>> \o RequestErrorText(cause, url), cause)

Failures == HttpErrors \cup {Timeout}

\* get_managed_account_by_name as it would be without its argument checks
NameArgumentsUnchecked(a) == ""

\* get_managed_account_by_name(account_name, system_name, domain_name,
\* is_domain_linked): the message of the argument check that fails, or ""
NameArgumentsError(a) ==
    IF a[1] = ""
    THEN "Account name cannot be null or empty"
    ELSE IF a[4] = "True"
         THEN IF a[3] = ""
              THEN "Domain name is required when is_domain_linked is True"
              ELSE ""
         ELSE IF a[2] = ""
              THEN "System name is required when is_domain_linked is False"
              ELSE ""

\* get_managed_accounts(system_id, account_name): the same
ListingArgumentsError(a) ==
    IF a[2] # "" /\ a[1] = ""
    THEN "system_id is required when account_name is specified"
    ELSE ""

\* sign_out as it would be if it never looked at the session
HasSessionAlways(s) == TRUE

\* "if not self._auth_result": the truth value of the session field
HasSession(s) == s # NoSession

\* ------------------------------------------------------ the operations
\* A caller invokes an operation; the argument checks come first.
Invoke(c, o, a) ==
    /\ th[c].pc \in {"idle", "done"}
    /\ ncalls' = ncalls + 1
    /\ LET t == [IdleThread EXCEPT !.op = o, !.arg = a, !.pc = "begin",
                                   !.fresh = (auth_result = NoSession /\ auth_failed = 0)] IN
       th' = [th EXCEPT ![c] =
           CASE o = "authenticate" ->
                  [t EXCEPT !.pc = "authenticate", !.apc = "acquire"]
             [] o = "get_managed_account_password_by_id" ->
                  IF a = NoText
                  THEN Propagate(t, Exc(ValueError, "Managed account ID cannot be null or empty",
                                        NoText, NoText), now)
                  ELSE [t EXCEPT !.apc = "ensure"]
             [] o = "get_managed_account_by_id" ->
                  IF a = NoText
                  THEN Propagate(t, Exc(ValueError, "Managed account ID cannot be null or empty",
                                        NoText, NoText), now)
                  ELSE [t EXCEPT !.pc = "lookup", !.apc = "ensure"]
             [] o = "get_managed_account_by_name" ->
                  IF NameArgumentsError(a) # ""
                  THEN Propagate(t, Exc(ValueError, NameArgumentsError(a), NoText, NoText), now)
                  ELSE [t EXCEPT !.pc = "by_name", !.apc = "ensure"]
             [] o = "get_managed_accounts" ->
                  IF ListingArgumentsError(a) # ""
                  THEN Propagate(t, Exc(ValueError, ListingArgumentsError(a), NoText, NoText), now)
                  ELSE [t EXCEPT !.pc = "accounts", !.apc = "ensure"]
             [] o = "get_managed_systems" ->
                  [t EXCEPT !.pc = "systems", !.apc = "ensure"]
             [] o = "sign_out" ->
                  IF HasSession(auth_result)
                  THEN [t EXCEPT !.pc = "signout", !.apc = "ready"]
                  ELSE ReturnTrue(t, now)
             [] OTHER ->
                  IF a = NoText
                  THEN Propagate(t, Exc(ValueError, "Request ID cannot be null or empty",
                                        NoText, NoText), now)
                  ELSE [t EXCEPT !.apc = "ensure"]]
    /\ UNCHANGED <<use_oauth, base_url, auto_refresh_token, transport, signed_out, auth_result, auth_lock, now, ticks, active,
                   issued, attempts, auth_failed, born_expired, half_open>>

\* an invocation within the number of invocations of a run
Call(c, o, a) == ncalls < MaxCalls /\ Invoke(c, o, a)

\* ------------------------------------------------------ session manager
\* _ensure_authenticated: the check outside the lock
EnsureCheck(c) ==
    /\ th[c].apc = "ensure"
    /\ th' = [th EXCEPT ![c] =
                IF NeedsAuth(auth_result, now)
                THEN [@ EXCEPT !.apc = "acquire"]
                ELSE Proceed(@)]
    /\ UNCHANGED <<use_oauth, base_url, auto_refresh_token, transport, signed_out, auth_result, auth_lock, now, ticks, active,
                   issued, ncalls, attempts, auth_failed, born_expired, half_open>>

\* authenticate as it would be without "with self._auth_lock"
LockNeverHeld == TRUE

\* "with self._auth_lock": the lock can be taken
LockAvailable == auth_lock = NoCaller

\* authenticate as it would be if leaving it kept the lock
KeepLock(c) == c

\* "with self._auth_lock" is left, by return or by exception
ReleaseLock(c) == NoCaller

\* authenticate as it would be without the second look at the session
HasValidTokenUnchecked == FALSE

\* "if self._auth_result and not self._auth_result.is_expired", under the lock
HasValidToken == ~NeedsAuth(auth_result, now)

\* authenticate: the lock is taken; a valid session is returned at once,
\* otherwise the first request of the configured strategy is sent
Authenticate(c) ==
    /\ th[c].apc = "acquire"
    /\ LockAvailable
    /\ IF HasValidToken
       THEN /\ th' = [th EXCEPT ![c] = AuthReturn(@, auth_result, now)]
            /\ UNCHANGED <<auth_lock, attempts, half_open>>
       ELSE /\ auth_lock' = c
            /\ attempts' = attempts + 1
            /\ half_open' = FALSE
            /\ th' = [th EXCEPT ![c] =
                        [@ EXCEPT !.apc = IF use_oauth THEN "token" ELSE "probe",
                                  !.tried = @ + 1]]
    /\ UNCHANGED <<use_oauth, base_url, auto_refresh_token, transport, signed_out, auth_result, now, ticks, active, issued,
                   ncalls, auth_failed, born_expired>>

\* _authenticate_with_api_key: the answer to GET /Auth
ProbeResponse(c) ==
    /\ th[c].apc = "probe"
    /\ auth_lock' = ReleaseLock(c)
    /\ \/ /\ auth_result' = KeySession(now, attempts)
          /\ signed_out' = FALSE
          /\ th' = [th EXCEPT ![c] =
                      AuthReturn(Logged(@, "GET /Auth", NoText, S200), auth_result', now)]
          /\ UNCHANGED auth_failed
       \/ \E cause \in Failures :
          /\ th' = [th EXCEPT ![c] =
                      Raise(Logged(@, "GET /Auth", NoText, cause),
                            RequestFailed(AuthException, "API key authentication failed: ",
                                          cause, Url(<<"/Auth">>)), now)]
          /\ auth_failed' = auth_failed + 1
          /\ UNCHANGED <<auth_result, signed_out>>
    /\ UNCHANGED <<use_oauth, base_url, auto_refresh_token, transport, now, ticks, active, issued, ncalls, attempts,
                   born_expired, half_open>>

\* _authenticate_with_oauth: the answer to POST /Auth/Connect/Token; on
\* success the session is stored and POST /Auth/SignAppIn is sent
TokenResponseOf(c, resps) ==
    /\ th[c].apc = "token"
    /\ \/ \E resp \in resps :
          /\ auth_result' = [access_token |-> BearerToken, token_type |-> "Bearer",
                             issued_at |-> now, expires_in |-> DeclaredLifetime(resp),
                             refresh_token |-> GetRefreshToken(resp),
                             obj |-> attempts]
          /\ born_expired' = born_expired + (IF is_expired(auth_result', now) THEN 1 ELSE 0)
          /\ th' = [th EXCEPT ![c] =
                      [Logged(@, "POST /Auth/Connect/Token",
                              TokenGrant(auto_refresh_token, auth_result), S200)
                         EXCEPT !.apc = "signin"]]
          /\ UNCHANGED <<auth_lock, auth_failed>>
       \/ \E cause \in Failures :
          /\ th' = [th EXCEPT ![c] =
                      Raise(Logged(@, "POST /Auth/Connect/Token",
                                   TokenGrant(auto_refresh_token, auth_result), cause),
                            RequestFailed(AuthException, "OAuth authentication failed: ",
                                          cause, Url(<<"/Auth/Connect/Token">>)), now)]
          /\ auth_lock' = ReleaseLock(c)
          /\ auth_failed' = auth_failed + 1
          /\ UNCHANGED <<auth_result, born_expired>>
    /\ UNCHANGED <<use_oauth, base_url, auto_refresh_token, transport, signed_out, now, ticks, active, issued, ncalls, attempts,
                   half_open>>

TokenResponse(c) == TokenResponseOf(c, TokenResponses)

\* _authenticate_with_oauth: POST /Auth/Connect/Token is answered 200 with a
\* body that holds no token; nothing is stored and the lock is released
TokenUnreadableResponse(c) ==
    /\ th[c].apc = "token"
    /\ \E body \in BadTokenBodies : \E e \in TokenUnreadable(body) :
          th' = [th EXCEPT ![c] =
                   Raise(Logged(@, "POST /Auth/Connect/Token",
                                TokenGrant(auto_refresh_token, auth_result), S200), e, now)]
    /\ auth_lock' = ReleaseLock(c)
    /\ auth_failed' = auth_failed + 1
    /\ UNCHANGED <<use_oauth, base_url, auto_refresh_token, transport, signed_out, auth_result, now, ticks, active, issued, ncalls,
                   attempts, born_expired, half_open>>

\* _authenticate_with_oauth: the answer to POST /Auth/SignAppIn
SignInResponse(c) ==
    /\ th[c].apc = "signin"
    /\ auth_lock' = ReleaseLock(c)
    /\ \/ /\ th' = [th EXCEPT ![c] =
                      AuthReturn(Logged(@, "POST /Auth/SignAppIn", NoText, S200),
                                 auth_result, now)]
          /\ signed_out' = FALSE
          /\ UNCHANGED <<auth_failed, half_open>>
       \/ \E cause \in Failures :
          /\ th' = [th EXCEPT ![c] =
                      Raise(Logged(@, "POST /Auth/SignAppIn", NoText, cause),
                            RequestFailed(AuthException, "SignAppIn failed: ",
                                          cause, Url(<<"/Auth/SignAppIn">>)), now)]
          /\ auth_failed' = auth_failed + 1
          /\ half_open' = TRUE
          /\ UNCHANGED signed_out
    /\ UNCHANGED <<use_oauth, base_url, auto_refresh_token, transport, auth_result, now, ticks, active, issued, ncalls,
                   attempts, born_expired>>

\* the clock advances
TickSteps == {1, 3300}
Tick ==
    /\ ticks < MaxTicks
    /\ ticks' = ticks + 1
    /\ \E d \in TickSteps : now' = now + d
    /\ UNCHANGED <<use_oauth, base_url, auto_refresh_token, transport, signed_out, auth_result, auth_lock, active, issued, th,
                   ncalls, attempts, auth_failed, born_expired, half_open>>

\* ------------------------------------------------------------ the vault
MaxRid == 2     \* request ids the vault gives out in one behaviour
DefaultDuration == 60   \* options.default_password_duration, in minutes

RidDigits == <<"1", "2", "3", "4", "5">>
RidText(n) == <<"r-", RidDigits[n]>>

IsActive(rid) == \E i \in 1..Len(active) : active[i].request_id = rid

\* Another requester checks the account out.
ExternalCheckout ==
    /\ Len(active) < MaxActive
    /\ issued < MaxRid
    /\ issued' = issued + 1
    /\ active' = Append(active, [request_id |-> RidText(issued + 1),
                                 expiration_date |-> now + 1800])
    /\ UNCHANGED <<use_oauth, base_url, auto_refresh_token, transport, signed_out, auth_result, auth_lock, now, ticks, th, ncalls,
                   attempts, auth_failed, born_expired, half_open>>

\* An active request ends: it is checked in, or it expires.
Release ==
    /\ \E i \in 1..Len(active) :
          active' = SubSeq(active, 1, i - 1) \o SubSeq(active, i + 1, Len(active))
    /\ UNCHANGED <<use_oauth, base_url, auto_refresh_token, transport, signed_out, auth_result, auth_lock, now, ticks, issued, th,
                   ncalls, attempts, auth_failed, born_expired, half_open>>

\* PasswordRequest.__init__: "'system_id' not in kwargs or kwargs['system_id']
\* is None"; the client always passes the keyword
PasswordRequestRaises(sys) == sys = None

\* ------------------------------------------------ credential directory
\* get_managed_account_by_id: the answer to GET /ManagedAccounts/{id}. Inside
\* get_managed_account_password_by_id the PasswordRequest is built next.
AccountResolved(t, a, at) ==
    IF t.pc \in {"lookup", "by_name"}
    THEN ReturnAccount(t, a, at)
    ELSE IF PasswordRequestRaises(a.managed_system_id)
         THEN Raise([t EXCEPT !.pc = "create"],
                    Exc(ValueError, "system_id is required for password requests",
                        NoText, NoText), at)
         ELSE [t EXCEPT !.pc = "create", !.apc = "ensure", !.account = a]

\* the parse of a single-account response: from_dict, then the reconciliation,
\* any exception wrapped
ParseAccount(t, doc, at) ==
    LET a == from_dict(doc) IN
    IF ReconcileRaises(a)
    THEN Raise(t, Exc(ApiException, "Failed to parse managed account: ",
                      <<"Failed to parse managed account: ">>, <<"TypeError">>), at)
    ELSE AccountResolved(t, Reconcile(a), at)

LookupResponseOf(c, docs) ==
    /\ th[c].pc \in {"resolve", "lookup"}
    /\ th[c].apc = "ready"
    /\ LET url == Url(<<"/ManagedAccounts/">> \o th[c].arg) IN
       \/ \E doc \in docs :
          th' = [th EXCEPT ![c] =
                   ParseAccount([Logged(@, "GET /ManagedAccounts/{id}", th[c].arg, S200)
                                    EXCEPT !.body = ObjectBody(doc)], doc, now)]
       \/ \E cause \in Failures :
          th' = [th EXCEPT ![c] =
                   Raise(Logged(@, "GET /ManagedAccounts/{id}", th[c].arg, cause),
                         RequestFailed(ApiException, "Failed to retrieve managed account: ",
                                       cause, url), now)]
    /\ UNCHANGED <<use_oauth, base_url, auto_refresh_token, transport, signed_out, auth_result, auth_lock, now, ticks, active,
                   issued, ncalls, attempts, auth_failed, born_expired, half_open>>

LookupResponse(c) == LookupResponseOf(c, AccountDocs)

\* get_managed_account_by_name: the answer to GET /ManagedAccounts with the
\* names as query parameters
NameLookupResponse(c) ==
    /\ th[c].pc = "by_name"
    /\ th[c].apc = "ready"
    /\ LET url == Url(<<"/ManagedAccounts", "?">> \o th[c].arg) IN
       \/ \E doc \in RecordDocs :
          th' = [th EXCEPT ![c] =
                   ParseAccount([Logged(@, "GET /ManagedAccounts", th[c].arg, S200)
                                    EXCEPT !.body = ObjectBody(doc)], doc, now)]
       \/ \E cause \in Failures :
          th' = [th EXCEPT ![c] =
                   Raise(Logged(@, "GET /ManagedAccounts", th[c].arg, cause),
                         RequestFailed(ApiException, "Failed to retrieve managed account: ",
                                       cause, url), now)]
    /\ UNCHANGED <<use_oauth, base_url, auto_refresh_token, transport, signed_out, auth_result, auth_lock, now, ticks, active,
                   issued, ncalls, attempts, auth_failed, born_expired, half_open>>

\* the documents the listings are answered with
ListedAccountDocs == AccountDocs \cup {ZeroCanonicalDoc}

\* get_managed_accounts as it would be if it listed the array backwards
ParseAccountsReversed(content) ==
    IF content.shape = "dict"
    THEN <<from_dict(content.doc)>>
    ELSE [i \in 1..Len(content.docs) |->
             from_dict(content.docs[Len(content.docs) + 1 - i])]

\* get_managed_accounts: one object becomes a list of one record, an array
\* the list of its records
ParseAccounts(content) ==
    IF content.shape = "dict"
    THEN <<from_dict(content.doc)>>
    ELSE [i \in 1..Len(content.docs) |-> from_dict(content.docs[i])]

\* get_managed_systems: the same with ManagedSystem.from_dict
ParseSystems(content) ==
    IF content.shape = "dict"
    THEN <<system_from_dict(content.doc)>>
    ELSE [i \in 1..Len(content.docs) |-> system_from_dict(content.docs[i])]

\* get_managed_accounts: the answer to GET /ManagedAccounts
AccountsResponse(c) ==
    /\ th[c].pc = "accounts"
    /\ th[c].apc = "ready"
    /\ LET url == Url(<<"/ManagedAccounts", "?">> \o th[c].arg) IN
       \/ \E content \in ListingBodies(ListedAccountDocs) :
          th' = [th EXCEPT ![c] =
                   ReturnList([Logged(@, "GET /ManagedAccounts", th[c].arg, S200)
                                  EXCEPT !.body = content],
                              ParseAccounts(content), now)]
       \/ \E cause \in Failures :
          th' = [th EXCEPT ![c] =
                   Propagate(Logged(@, "GET /ManagedAccounts", th[c].arg, cause),
                             RequestFailed(ApiException, "Failed to retrieve managed accounts: ",
                                           cause, url), now)]
    /\ UNCHANGED <<use_oauth, base_url, auto_refresh_token, transport, signed_out, auth_result, auth_lock, now, ticks, active,
                   issued, ncalls, attempts, auth_failed, born_expired, half_open>>

\* get_managed_systems: the answer to GET /ManagedSystems or
\* GET /ManagedSystems/{system_id}
SystemsResponse(c) ==
    /\ th[c].pc = "systems"
    /\ th[c].apc = "ready"
    /\ LET url == IF th[c].arg = NoText
                  THEN Url(<<"/ManagedSystems">>)
                  ELSE Url(<<"/ManagedSystems/">> \o th[c].arg) IN
       \/ \E content \in ListingBodies(SystemDocs) :
          th' = [th EXCEPT ![c] =
                   ReturnList([Logged(@, "GET /ManagedSystems", th[c].arg, S200)
                                  EXCEPT !.body = content],
                              ParseSystems(content), now)]
       \/ \E cause \in Failures :
          th' = [th EXCEPT ![c] =
                   Propagate(Logged(@, "GET /ManagedSystems", th[c].arg, cause),
                             RequestFailed(ApiException, "Failed to retrieve managed systems: ",
                                           cause, url), now)]
    /\ UNCHANGED <<use_oauth, base_url, auto_refresh_token, transport, signed_out, auth_result, auth_lock, now, ticks, active,
                   issued, ncalls, attempts, auth_failed, born_expired, half_open>>

\* ------------------------------------------------ checkout coordinator
DurationText == <<"6", "0">>     \* str(default_password_duration)
FixedReason == "API Password Request"

\* PasswordRequest.to_dict(), as the JSON body of POST /Requests
RequestBody(sys, acct) ==
    <<"SystemId:">> \o IdText(sys) \o <<"AccountId:">> \o IdText(acct)
        \o <<"DurationMinutes:">> \o DurationText \o <<"Reason:", FixedReason>>

\* the request as it would be built from the secondary id fields
PasswordRequestSecondary(a) == RequestBody(a.system_id, a.account_id)

\* PasswordRequest(system_id=account.managed_system_id,
\*                 account_id=account.managed_account_id, ...)
PasswordRequest(a) == RequestBody(a.managed_system_id, a.managed_account_id)

\* create_password_request: the answer to POST /Requests. The vault admits
\* one checkout of the account by this requester and answers 409 otherwise.
CreateResponse(c) ==
    /\ th[c].pc = "create"
    /\ th[c].apc = "ready"
    /\ LET url == Url(<<"/Requests">>)
           body == PasswordRequest(th[c].account) IN
       \/ /\ active = <<>>
          /\ issued < MaxRid
          /\ issued' = issued + 1
          /\ LET entry == [request_id |-> RidText(issued + 1),
                           expiration_date |-> now + DefaultDuration * 60] IN
             /\ active' = Append(active, entry)
             /\ th' = [th EXCEPT ![c] =
                         [Logged(@, "POST /Requests", body, S200)
                            EXCEPT !.pc = "fetch", !.apc = "ready", !.req = entry,
                                   !.created = entry]]
       \/ /\ active # <<>>
          /\ th' = [th EXCEPT ![c] =
                      Raise(Logged(@, "POST /Requests", body, S409),
                            RequestFailed(ApiException, "Failed to create password request: ",
                                          S409, url), now)]
          /\ UNCHANGED <<active, issued>>
       \/ /\ \E cause \in Failures :
             th' = [th EXCEPT ![c] =
                      Raise(Logged(@, "POST /Requests", body, cause),
                            RequestFailed(ApiException, "Failed to create password request: ",
                                          cause, url), now)]
          /\ UNCHANGED <<active, issued>>
    /\ UNCHANGED <<use_oauth, base_url, auto_refresh_token, transport, signed_out, auth_result, auth_lock, now, ticks, ncalls,
                   attempts, auth_failed, born_expired, half_open>>

\* The body of a successful fetch is read: a document first, the literal
\* string (quotes stripped) when json.loads raises JSONDecodeError.
ParseFetched(t, rid, content, at) ==
    LET acct == IF t.pc = "fetch_rid" THEN None ELSE t.account.managed_account_id
        sys == IF t.pc = "fetch_rid" THEN None ELSE t.account.managed_system_id
        exp == IF t.pc = "fetch_rid" THEN None ELSE t.req.expiration_date
    IN CASE JsonKind(content) = "dict" ->
              ReturnPassword(t, ManagedPassword(DocPassword(content), rid, acct, sys, exp), at)
         [] JsonKind(content) = "JSONDecodeError" ->
              ReturnPassword(t, ManagedPassword(StripQuotes(content), rid, acct, sys, exp), at)
         [] OTHER ->
              IF t.pc = "refetch"
              THEN Propagate(t, Exc(ApiException,
                        "Failed to parse password response from existing request: ",
                        <<"Failed to parse password response from existing request: ">>
                            \o content,
                        <<AttributeError>>), at)
              ELSE Raise(t, Exc(AttributeError, "'str' object has no attribute 'get'",
                                NoText, NoText), at)

\* the recovery fetch as it would be without its try/except: the exception
\* of the HTTP library leaves the operation
FetchFailedUncaught(t, rid, cause) ==
    Exc("HTTPError", "none", RequestErrorText(cause, Url(<<"/Credentials/">> \o rid)), cause)

\* what a failed fetch raises, by the place of the fetch
FetchFailed(t, rid, cause) ==
    LET url == Url(<<"/Credentials/">> \o rid) IN
    CASE t.pc = "fetch" ->
           RequestFailed(ApiException, "Failed to get password: ", cause, url)
      [] t.pc = "refetch" ->
           Exc(ApiException, "Failed to get password with existing request ID ",
               <<"Failed to get password with existing request ID ">> \o rid
                   \o RequestErrorText(cause, url), cause)
      [] OTHER ->
           Exc(ApiException, "Failed to get password with request ID ",
               <<"Failed to get password with request ID ">> \o rid
                   \o RequestErrorText(cause, url), cause)

\* the answer to GET /Credentials/{request id}, in the three places it is
\* sent; a successful answer has one of the given bodies
FetchResponseOf(c, bodies) ==
    /\ th[c].pc \in {"fetch", "refetch", "fetch_rid"}
    /\ th[c].apc = "ready"
    /\ LET rid == IF th[c].pc = "fetch_rid" THEN th[c].arg ELSE th[c].req.request_id IN
       \/ /\ IsActive(rid)
          /\ \E content \in bodies :
             th' = [th EXCEPT ![c] =
                      ParseFetched([Logged(@, "GET /Credentials/{id}", rid, S200)
                                      EXCEPT !.content = content],
                                   rid, content, now)]
       \/ \E cause \in Failures \cup {S409, S404} :
             \* 404 is the answer for a request that is not active
          /\ cause = S404 => ~IsActive(rid)
          /\ cause = S409 => IsActive(rid)
          /\ th' = [th EXCEPT ![c] =
                      LET t == Logged(@, "GET /Credentials/{id}", rid, cause) IN
                      IF t.pc = "fetch"
                      THEN Raise(t, FetchFailed(t, rid, cause), now)
                      ELSE Propagate(t, FetchFailed(t, rid, cause), now)]
    /\ UNCHANGED <<use_oauth, base_url, auto_refresh_token, transport, signed_out, auth_result, auth_lock, now, ticks, active,
                   issued, ncalls, attempts, auth_failed, born_expired, half_open>>

FetchResponse(c) == FetchResponseOf(c, Bodies)

\* check_in_password as it would be without its try/except
CheckInFailedUncaught(cause, url) ==
    Exc("HTTPError", "none", RequestErrorText(cause, url), cause)

\* what a failed check-in raises
CheckInFailed(cause, url) ==
    RequestFailed(ApiException, "Failed to check in password: ", cause, url)

\* check_in_password: the answer to PUT /Requests/{request id}/CheckIn. The
\* vault ends the request when it accepts the check-in.
CheckInResponse(c) ==
    /\ th[c].pc = "checkin"
    /\ th[c].apc = "ready"
    /\ LET rid == th[c].arg
           url == Url(<<"/Requests/">> \o rid \o <<"/CheckIn">>) IN
       \/ /\ IsActive(rid)
          /\ active' = SelectSeq(active, LAMBDA e : e.request_id # rid)
          /\ th' = [th EXCEPT ![c] =
                      ReturnTrue(Logged(@, "PUT /Requests/{id}/CheckIn", rid, S200), now)]
       \/ /\ \E cause \in Failures \cup {S404} :
                /\ cause = S404 => ~IsActive(rid)
                /\ th' = [th EXCEPT ![c] =
                            Raise(Logged(@, "PUT /Requests/{id}/CheckIn", rid, cause),
                                  CheckInFailed(cause, url), now)]
          /\ UNCHANGED active
    /\ UNCHANGED <<use_oauth, base_url, auto_refresh_token, transport, signed_out, auth_result, auth_lock, now, ticks, issued,
                   ncalls, attempts, auth_failed, born_expired, half_open>>

\* "return PasswordRequestResult.from_dict(content[0])"
FirstEntry(content) == Head(content)

\* the handler as it would be if it raised a failure of its own
NoActiveRequestWrapped(t, at) ==
    Propagate(t, Exc(ApiException, "No active request found", NoText, t.exc.cause), at)

\* the bare "raise" that ends the handler: the original exception again
NoActiveRequest(t, at) == Propagate(t, t.exc, at)

\* the handler as it would be if a failed query fell back to the conflict
QueryFailedRethrows(t, cause, at) == NoActiveRequest(t, at)

\* _get_existing_request raises for a failed GET /Requests; raised inside the
\* handler of the conflict, the failure leaves the operation
QueryFailed(t, cause, at) ==
    Propagate(t, RequestFailed(ApiException, "Failed to check for existing requests: ",
                               cause, Url(<<"/Requests">>)), at)

\* _get_existing_request: the answer to GET /Requests?accountId=..&state=active;
\* without an active request the original exception is raised again
QueryResponse(c) ==
    /\ th[c].pc = "query"
    /\ th[c].apc = "ready"
    /\ \/ th' = [th EXCEPT ![c] =
                   LET t == [Logged(@, "GET /Requests", NoText, S200)
                               EXCEPT !.listed = active] IN
                   IF t.listed # <<>>
                   THEN [t EXCEPT !.pc = "refetch", !.req = FirstEntry(t.listed)]
                   ELSE NoActiveRequest(t, now)]
       \/ \E cause \in Failures :
             th' = [th EXCEPT ![c] =
                      QueryFailed(Logged(@, "GET /Requests", NoText, cause), cause, now)]
    /\ UNCHANGED <<use_oauth, base_url, auto_refresh_token, transport, signed_out, auth_result, auth_lock, now, ticks, active,
                   issued, ncalls, attempts, auth_failed, born_expired, half_open>>

\* bodies of a 200 answer to GET /Requests that cannot be read
BadQueryBodies == {"not JSON", "array of numbers"}

\* what _get_existing_request raises for them: response.json() raises the
\* JSONDecodeError of the HTTP library, which the first handler catches where
\* that class is a RequestException and the second one otherwise;
\* from_dict(content[0]) raises AttributeError for a number
QueryUnreadable(body) ==
    IF body = "not JSON"
    THEN { Exc(ApiException, "Failed to check for existing requests: ",
               <<"Failed to check for existing requests: ", "JSONDecodeError">>,
               <<"JSONDecodeError">>),
           Exc(ApiException, "Failed to parse existing requests response",
               <<"Failed to parse existing requests response">>, <<"JSONDecodeError">>) }
    ELSE { Exc(ApiException, "Failed to parse existing requests: ",
               <<"Failed to parse existing requests: ", "AttributeError">>,
               <<"AttributeError">>) }

\* _get_existing_request: GET /Requests is answered 200 with such a body
QueryUnreadableResponse(c) ==
    /\ th[c].pc = "query"
    /\ th[c].apc = "ready"
    /\ \E body \in BadQueryBodies : \E e \in QueryUnreadable(body) :
          th' = [th EXCEPT ![c] =
                   Propagate(Logged(@, "GET /Requests", <<body>>, S200), e, now)]
    /\ UNCHANGED <<use_oauth, base_url, auto_refresh_token, transport, signed_out, auth_result, auth_lock, now, ticks, active,
                   issued, ncalls, attempts, auth_failed, born_expired, half_open>>

\* ------------------------------------------------------- construction
\* PasswordSafeClient(options): the options are validated, then the HTTP
\* session object is made; nothing is sent
Construct(c, o) ==
    /\ th[c].pc \in {"idle", "done"}
    /\ ncalls < MaxCalls
    /\ ncalls' = ncalls + 1
    /\ LET t == [IdleThread EXCEPT !.op = "PasswordSafeClient", !.options = o] IN
       th' = [th EXCEPT ![c] =
                IF validate(o) # ""
                THEN Propagate(t, Exc(ValueError, validate(o), NoText, NoText), now)
                ELSE Returned(t, [NoResult EXCEPT !.kind = "client", !.at = now])]
    /\ UNCHANGED <<use_oauth, base_url, auto_refresh_token, transport, signed_out, auth_result, auth_lock, now, ticks, active,
                   issued, attempts, auth_failed, born_expired, half_open>>

\* ------------------------------------------------------- scoped use
\* close() as it would be if it did not forget the session it closed
close_again(tr) == [tr EXCEPT !.closes = @ + 1]

\* close(): "if self._session: self._session.close(); self._session = None"
close(tr) ==
    IF tr.session = "open"
    THEN [tr EXCEPT !.session = "none", !.closes = @ + 1]
    ELSE tr

\* "with client:" is entered: __enter__ returns the client
EnterScope ==
    /\ transport.scope = "none"
    /\ transport.session = "open"
    /\ transport' = [transport EXCEPT !.scope = "inside"]
    /\ UNCHANGED <<use_oauth, base_url, auto_refresh_token, auth_result, auth_lock, now, ticks, active,
                   issued, th, ncalls, attempts, auth_failed, born_expired, half_open,
                   signed_out>>

\* the block ends, at its last statement or at the exception an operation
\* raised: __exit__ calls close() and returns None, so the exception goes on
ExitScope(c) ==
    /\ transport.scope = "inside"
    /\ th[c].pc \in {"idle", "done"}
    /\ transport' = [close(transport) EXCEPT
                        !.scope = "exited",
                        !.reached = IF th[c].result.kind = "raise"
                                    THEN th[c].result.exc ELSE NoExc]
    /\ UNCHANGED <<use_oauth, base_url, auto_refresh_token, auth_result, auth_lock, now, ticks, active,
                   issued, th, ncalls, attempts, auth_failed, born_expired, half_open,
                   signed_out>>

\* the caller calls close() itself, between operations or after the block
Close(c) ==
    /\ th[c].pc \in {"idle", "done"}
    /\ transport' = close(transport)
    /\ transport' # transport \/ transport.scope = "exited"
    /\ UNCHANGED <<use_oauth, base_url, auto_refresh_token, auth_result, auth_lock, now, ticks, active,
                   issued, th, ncalls, attempts, auth_failed, born_expired, half_open,
                   signed_out>>

\* ------------------------------------------------------- result expiry
\* the caller reads the property is_expired of the ManagedPassword it holds
ReadExpired(c) ==
    /\ th[c].pc = "done"
    /\ th[c].result.kind = "password"
    /\ th' = [th EXCEPT ![c].is_expired =
                [value |-> IF result_is_expired(th[c].result.password.expiration_date, now)
                           THEN "True" ELSE "False",
                 at |-> now]]
    /\ UNCHANGED <<use_oauth, base_url, auto_refresh_token, transport, signed_out, auth_result, auth_lock, now, ticks, active,
                   issued, ncalls, attempts, auth_failed, born_expired, half_open>>

\* ------------------------------------------------------------ sign-out
\* sign_out: the answer to POST /Auth/SignOut. The session field is cleared
\* on success, outside "with self._auth_lock".
\* sign_out whose handler returned True for a failed call
SignOutFailedSilently(t, cause, at) == ReturnTrue(t, at)

\* except requests.RequestException in sign_out
SignOutFailed(t, cause, at) ==
    Propagate(t, RequestFailed(ApiException, "Failed to sign out: ",
                               cause, Url(<<"/Auth/SignOut">>)), at)

SignOutResponse(c) ==
    /\ th[c].pc = "signout"
    /\ th[c].apc = "ready"
    /\ \/ /\ auth_result' = NoSession
          /\ signed_out' = TRUE
          /\ th' = [th EXCEPT ![c] =
                      ReturnTrue(Logged(@, "POST /Auth/SignOut", NoText, S200), now)]
       \/ /\ \E cause \in Failures :
             th' = [th EXCEPT ![c] =
                      SignOutFailed(Logged(@, "POST /Auth/SignOut", NoText, cause),
                                    cause, now)]
          /\ UNCHANGED <<auth_result, signed_out>>
    /\ UNCHANGED <<use_oauth, base_url, auto_refresh_token, transport, auth_lock, now, ticks, active, issued, ncalls,
                   attempts, auth_failed, born_expired, half_open>>

\* _ensure_authenticated, read by read: "not self._auth_result" is the first
\* read of the session field
EnsureFirstRead(c) ==
    /\ th[c].apc = "ensure"
    /\ th' = [th EXCEPT ![c] =
                [@ EXCEPT !.apc = IF HasSession(auth_result) THEN "ensure2" ELSE "acquire"]]
    /\ UNCHANGED <<use_oauth, base_url, auto_refresh_token, transport, signed_out, auth_result, auth_lock, now, ticks, active,
                   issued, ncalls, attempts, auth_failed, born_expired, half_open>>

\* "self._auth_result.is_expired" is the second read: the field may hold
\* None by now
EnsureSecondRead(c) ==
    /\ th[c].apc = "ensure2"
    /\ th' = [th EXCEPT ![c] =
                IF ~HasSession(auth_result)
                THEN Propagate(@, Exc(AttributeError, "_ensure_authenticated",
                                      <<"'NoneType' object has no attribute 'is_expired'">>,
                                      NoText), now)
                ELSE IF is_expired(auth_result, now)
                     THEN [@ EXCEPT !.apc = "acquire"]
                     ELSE Proceed(@)]
    /\ UNCHANGED <<use_oauth, base_url, auto_refresh_token, transport, signed_out, auth_result, auth_lock, now, ticks, active,
                   issued, ncalls, attempts, auth_failed, born_expired, half_open>>

\* ------------------------------------------------------- specification
Operations == {"authenticate", "get_managed_account_by_id",
               "get_managed_account_password_by_id",
               "get_managed_account_password_by_request_id",
               "check_in_password"}

Arguments(o) ==
    CASE o = "authenticate" -> {NoText}
      [] o = "get_managed_account_password_by_request_id" -> {NoText, RidText(1)}
      [] o = "check_in_password" -> {NoText, RidText(1)}
      [] OTHER -> {NoText, AccountIdText}

\* what the callers and the vault do once operations are invoked
Steps ==
    \/ \E c \in Callers : EnsureCheck(c)
    \/ \E c \in Callers : Authenticate(c)
    \/ \E c \in Callers : ProbeResponse(c)
    \/ \E c \in Callers : TokenResponse(c)
    \/ \E c \in Callers : SignInResponse(c)
    \/ \E c \in Callers : LookupResponse(c)

CheckoutSteps ==
    \/ \E c \in Callers : CreateResponse(c)
    \/ \E c \in Callers : FetchResponse(c)
    \/ \E c \in Callers : QueryResponse(c)

\* Session manager: the callers authenticate and look accounts up while the
\* clock advances.
CallAuth ==
    \E c \in Callers, o \in {"authenticate", "get_managed_account_by_id"} :
        \E a \in Arguments(o) : Call(c, o, a)

NextAuth == CallAuth \/ Steps \/ Tick

SpecAuth == Init /\ [][NextAuth]_vars

\* Session manager with a vault whose token responses may hold no token.
NextToken == NextAuth \/ \E c \in Callers : TokenUnreadableResponse(c)

SpecToken == Init /\ [][NextToken]_vars

\* the single caller of the runs of one caller
Solo == "c1"

\* Token refresh: one caller authenticates and looks accounts up with either
\* value of auto_refresh_token, the clock advances, and token responses may
\* hold a refresh token.
CallRefresh ==
    \E o \in {"authenticate", "get_managed_account_by_id"} :
        \E a \in Arguments(o) : Call(Solo, o, a)

NextRefresh ==
    \/ CallRefresh
    \/ Steps
    \/ \E c \in Callers : TokenResponseOf(c, RefreshResponses)
    \/ Tick

SpecRefresh == InitClient(BOOLEAN) /\ [][NextRefresh]_vars

\* The authentication lock: the callers authenticate; every thread that can
\* run does run, and every request is answered or times out.
CallLock ==
    /\ ncalls < MaxLockCalls
    /\ \E c \in Callers : Invoke(c, "authenticate", NoText)

NextLock ==
    \/ CallLock
    \/ \E c \in Callers : Authenticate(c)
    \/ \E c \in Callers : ProbeResponse(c)
    \/ \E c \in Callers : TokenResponse(c)
    \/ \E c \in Callers : TokenUnreadableResponse(c)
    \/ \E c \in Callers : SignInResponse(c)

FairLock ==
    \A c \in Callers :
        /\ WF_vars(Authenticate(c))
        /\ WF_vars(ProbeResponse(c))
        /\ WF_vars(TokenResponse(c) \/ TokenUnreadableResponse(c))
        /\ WF_vars(SignInResponse(c))

SpecLock == Init /\ [][NextLock]_vars /\ FairLock

\* Checkout coordinator: one caller retrieves passwords while other
\* requesters check the account out and in.
CallCheckout ==
    \E o \in {"get_managed_account_password_by_id",
              "get_managed_account_password_by_request_id"} :
        \E a \in Arguments(o) : ncalls < MaxSoloCalls /\ Call(Solo, o, a)

Next == CallCheckout \/ Steps \/ CheckoutSteps \/ ExternalCheckout \/ Release

Spec == Init /\ [][Next]_vars

\* Two callers retrieve the password of the same account concurrently.
CallRace ==
    \E c \in Callers : Call(c, "get_managed_account_password_by_id", AccountIdText)

NextRace == CallRace \/ Steps \/ CheckoutSteps

SpecRace == Init /\ [][NextRace]_vars

\* Response shapes: one caller retrieves passwords from a vault whose fetch
\* answers hold no password.
ShapeSteps ==
    \/ \E c \in Callers : CreateResponse(c)
    \/ \E c \in Callers : FetchResponseOf(c, ShapeBodies)
    \/ \E c \in Callers : QueryResponse(c)

NextShapes == CallCheckout \/ Steps \/ ShapeSteps \/ ExternalCheckout \/ Release

SpecShapes == Init /\ [][NextShapes]_vars

\* Literal bodies: one caller retrieves passwords from a vault whose fetch
\* answers are no JSON value.
LiteralSteps ==
    \/ \E c \in Callers : CreateResponse(c)
    \/ \E c \in Callers : FetchResponseOf(c, LiteralBodies)
    \/ \E c \in Callers : QueryResponse(c)

NextLiteral == CallCheckout \/ Steps \/ LiteralSteps \/ ExternalCheckout \/ Release

SpecLiteral == Init /\ [][NextLiteral]_vars

\* Check-in: one caller checks requests in that other requesters created.
AuthSteps ==
    \/ \E c \in Callers : EnsureCheck(c)
    \/ \E c \in Callers : Authenticate(c)
    \/ \E c \in Callers : ProbeResponse(c)
    \/ \E c \in Callers : TokenResponse(c)
    \/ \E c \in Callers : SignInResponse(c)

CallCheckIn ==
    \E a \in Arguments("check_in_password") : Call(Solo, "check_in_password", a)

NextCheckIn ==
    \/ CallCheckIn
    \/ AuthSteps
    \/ \E c \in Callers : CheckInResponse(c)
    \/ ExternalCheckout
    \/ Release

SpecCheckIn == Init /\ [][NextCheckIn]_vars

\* Credential directory: one caller looks accounts up by id and by name and
\* lists accounts and systems.
NameArguments ==
    {<<account, system, domain, linked>> :
        account \in {"", "svc"}, system \in {"", "host"},
        domain \in {"", "corp"}, linked \in {"True", "False"}}

ListingArguments ==
    {<<system, account>> : system \in {"", "7"}, account \in {"", "svc"}}

CallDirectory ==
    \/ \E a \in NameArguments : Call(Solo, "get_managed_account_by_name", a)
    \/ \E a \in ListingArguments : Call(Solo, "get_managed_accounts", a)
    \/ \E a \in {NoText, <<"7">>} : Call(Solo, "get_managed_systems", a)
    \/ Call(Solo, "get_managed_account_by_id", AccountIdText)

NextDirectory ==
    \/ CallDirectory
    \/ AuthSteps
    \/ \E c \in Callers : LookupResponseOf(c, RecordDocs)
    \/ \E c \in Callers : NameLookupResponse(c)
    \/ \E c \in Callers : AccountsResponse(c)
    \/ \E c \in Callers : SystemsResponse(c)

SpecDirectory == Init /\ [][NextDirectory]_vars

\* Checkout over the vault's further records: one caller retrieves passwords
\* of an account whose record may hold a null or no system id.
NextRecords ==
    \/ CallCheckout
    \/ AuthSteps
    \/ \E c \in Callers : LookupResponseOf(c, RecordDocs)
    \/ CheckoutSteps
    \/ ExternalCheckout
    \/ Release

SpecRecords == Init /\ [][NextRecords]_vars

\* Result expiry: one caller retrieves a password and reads is_expired of the
\* result while the clock advances.
NextExpiry ==
    \/ CallCheckout
    \/ Steps
    \/ CheckoutSteps
    \/ Tick
    \/ \E c \in Callers : ReadExpired(c)

SpecExpiry == Init /\ [][NextExpiry]_vars

\* Construction: one caller builds clients from every combination of options.
NextConstruct == \E o \in OptionsSpace : Construct(Solo, o)

SpecConstruct == Init /\ [][NextConstruct]_vars

\* Scoped use: one caller runs operations inside "with client:" until the
\* block ends or an operation raises; operations are invoked on an open
\* client only.
CallScoped ==
    /\ transport.scope = "inside"
    /\ transport.session = "open"
    /\ th[Solo].result.kind # "raise"
    /\ \/ Call(Solo, "authenticate", NoText)
       \/ Call(Solo, "sign_out", NoText)
       \/ \E a \in Arguments("get_managed_account_by_id") :
             Call(Solo, "get_managed_account_by_id", a)

NextScope ==
    \/ EnterScope
    \/ CallScoped
    \/ Steps
    \/ \E c \in Callers : SignOutResponse(c)
    \/ ExitScope(Solo)
    \/ Close(Solo)

SpecScope == Init /\ [][NextScope]_vars

\* Checkout with a vault whose answers to the active-requests query may be
\* unreadable.
NextQuery == Next \/ \E c \in Callers : QueryUnreadableResponse(c)

SpecQuery == Init /\ [][NextQuery]_vars

\* Sign-out: the callers authenticate, look accounts up and sign out
\* concurrently; the session check is taken read by read.
CallSignOut ==
    /\ ncalls < MaxSignOutCalls
    /\ \/ \E c \in Callers : Invoke(c, "sign_out", NoText)
       \/ \E c \in Callers : Invoke(c, "authenticate", NoText)
       \/ \E c \in Callers : Invoke(c, "get_managed_account_by_id", AccountIdText)

NextSignOut ==
    \/ CallSignOut
    \/ \E c \in Callers : EnsureFirstRead(c)
    \/ \E c \in Callers : EnsureSecondRead(c)
    \/ \E c \in Callers : Authenticate(c)
    \/ \E c \in Callers : ProbeResponse(c)
    \/ \E c \in Callers : TokenResponse(c)
    \/ \E c \in Callers : SignInResponse(c)
    \/ \E c \in Callers : LookupResponse(c)
    \/ \E c \in Callers : SignOutResponse(c)

SpecSignOut == Init /\ [][NextSignOut]_vars

\* ============================================================== claims
Done(c) == th[c].pc = "done"
Raised(c, kind) == Done(c) /\ th[c].result.kind = "raise" /\ th[c].result.exc.kind = kind

\* an authentication request of caller c is in flight
InFlight(c) == th[c].apc \in {"probe", "token", "signin"}

\* every caller was invoked while the client held no session and no attempt
\* had ended: the callers started concurrently
StartedTogether ==
    \A c \in Callers :
        th[c].fresh /\ (th[c].op = "authenticate" \/ th[c].arg # NoText)

ThmC2 == \A a, b \in Callers : InFlight(a) /\ InFlight(b) => a = b

\* one caller's request is in flight while another caller waits for the lock
WitC2 == \E a, b \in Callers : a # b /\ InFlight(a) /\ th[b].apc = "acquire"

\* C3, as stated: a session that authenticate returns is usable when it is
\* returned, whatever lifetime the vault declared.
CexC3 ==
    \A c \in Callers :
        (Done(c) /\ th[c].result.kind = "session")
            => ~is_expired(th[c].result.session, th[c].result.at)

\* C4, as stated: when the app sign-in fails after the token exchange
\* succeeded, authenticate fails with an authentication failure and the
\* client holds no usable session, so that the next operation authenticates
\* again before it sends its request.
CexC4 ==
    half_open =>
        /\ NeedsAuth(auth_result, now)
        /\ \A c \in Callers :
              (th[c].calls # <<>> /\ th[c].calls[Len(th[c].calls)].call = "POST /Auth/SignAppIn"
               /\ th[c].calls[Len(th[c].calls)].out # S200)
                  => Raised(c, AuthException)

\* ---------------------------------------------------- the call log
Sent(t, call) == \E i \in 1..Len(t.calls) : t.calls[i].call = call
Answered(t, call, out) ==
    \E i \in 1..Len(t.calls) : t.calls[i].call = call /\ t.calls[i].out = out
LastCall(t) == t.calls[Len(t.calls)]

\* the request creation of the invocation was answered 409
ConflictAtCreate(t) == Answered(t, "POST /Requests", S409)

\* the active-requests query of the invocation was answered
QueryAnswered(t) == Answered(t, "GET /Requests", S200)

\* the failure that create_password_request raises for a 409
ConflictFailure ==
    RequestFailed(ApiException, "Failed to create password request: ", S409,
                  Url(<<"/Requests">>))

\* C5, as stated: after a 409 from the request creation, a query that lists
\* at least one active request and a successful fetch by the first entry's
\* request id, the operation returns a ManagedPassword with the request id
\* and expiry of that entry and the ids of the resolved account.
CexC5 ==
    \A c \in Callers :
        LET t == th[c] IN
        (/\ Done(c)
         /\ ConflictAtCreate(t)
         /\ QueryAnswered(t)
         /\ t.listed # <<>>
         /\ LastCall(t) = [call |-> "GET /Credentials/{id}",
                           key |-> t.listed[1].request_id, out |-> S200])
            => /\ t.result.kind = "password"
               /\ t.result.password.request_id = t.listed[1].request_id
               /\ t.result.password.expiration_date = t.listed[1].expiration_date
               /\ t.result.password.account_id = AccountId
               /\ t.result.password.system_id = SystemId

\* C6: after a 409 from the request creation and a query that lists no
\* active request, the caller gets the conflict failure of the request
\* creation itself, and no fetch was sent.
ThmC6 ==
    \A c \in Callers :
        LET t == th[c] IN
        (ConflictAtCreate(t) /\ QueryAnswered(t) /\ t.listed = <<>>)
            => /\ Done(c)
               /\ t.result.kind = "raise"
               /\ t.result.exc = ConflictFailure
               /\ ~Sent(t, "GET /Credentials/{id}")
               /\ LastCall(t).call = "GET /Requests"

\* the conflicting request ended before the query: the list came back empty
WitC6 ==
    \E c \in Callers :
        /\ ConflictAtCreate(th[c]) /\ QueryAnswered(th[c]) /\ th[c].listed = <<>>
        /\ Raised(c, ApiException)

\* C7, as stated: the active-requests query is sent only after a call of the
\* invocation failed with HTTP status 409, whatever digits the URLs hold.
CexC7 ==
    \A c \in Callers :
        Sent(th[c], "GET /Requests")
            => \E i \in 1..Len(th[c].calls) : th[c].calls[i].out = S409

\* every call of the invocation was answered with success, but for request
\* creations answered 409
AnsweredWell(t) ==
    \A i \in 1..Len(t.calls) :
        \/ t.calls[i].out = S200
        \/ t.calls[i].call = "POST /Requests" /\ t.calls[i].out = S409

\* C8, as stated: two callers that retrieve the password of the same account
\* concurrently, with a vault that answers every call, both return a
\* ManagedPassword, with the same request id, credential and expiry.
CexC8 ==
    (\A c \in Callers : Done(c) /\ AnsweredWell(th[c]))
        => /\ \A c \in Callers : th[c].result.kind = "password"
           /\ \A a, b \in Callers :
                 /\ th[a].result.password.request_id = th[b].result.password.request_id
                 /\ th[a].result.password.password = th[b].result.password.password
                 /\ th[a].result.password.expiration_date
                        = th[b].result.password.expiration_date

\* call i of the invocation is a rejected recovery fetch
RejectedRecoveryFetch(t, i) ==
    /\ t.calls[i].call = "GET /Credentials/{id}"
    /\ t.calls[i].out # S200
    /\ \E j \in 1..(i - 1) : t.calls[j].call = "GET /Requests"

\* C9: a recovery fetch that the vault rejects ends the operation with an
\* API failure for that fetch which carries the cause; it is the last call
\* of the invocation.
ThmC9 ==
    \A c \in Callers :
        \A i \in 1..Len(th[c].calls) :
            RejectedRecoveryFetch(th[c], i)
                => /\ i = Len(th[c].calls)
                   /\ Raised(c, ApiException)
                   /\ th[c].result.exc.origin
                          = "Failed to get password with existing request ID "
                   /\ th[c].result.exc.cause = th[c].calls[i].out
                   /\ th[c].calls[i].key = th[c].listed[1].request_id

\* the request the query listed was no longer active when it was fetched
WitC9 ==
    \E c \in Callers :
        /\ Done(c)
        /\ th[c].listed # <<>>
        /\ RejectedRecoveryFetch(th[c], Len(th[c].calls))
        /\ LastCall(th[c]).out = S404

\* C10, as stated: a fetch answered with the bare quoted string "abc123" or
\* with the document {"Password":"abc123"} returns a ManagedPassword whose
\* password is abc123, in each of the three places a fetch is sent.
CexC10 ==
    \A c \in Callers :
        LET t == th[c] IN
        (/\ Done(c)
         /\ t.calls # <<>>
         /\ LastCall(t).call = "GET /Credentials/{id}"
         /\ LastCall(t).out = S200
         /\ t.content \in {QuotedBody, DocumentBody})
            => t.result.kind = "password" /\ t.result.password.password = Secret

\* C11, as stated: a successful fetch whose body holds no usable password (a
\* document without the password field, a number, null, an array) ends the
\* password operation with an API failure that carries the raw body.
CexC11 ==
    \A c \in Callers :
        LET t == th[c] IN
        (/\ Done(c)
         /\ t.calls # <<>>
         /\ LastCall(t).call = "GET /Credentials/{id}"
         /\ LastCall(t).out = S200
         /\ t.content \in ShapeBodies)
            => /\ Raised(c, ApiException)
               /\ Contains(t.result.exc.msg, t.content)

\* C12, as stated: the credential the vault returned is part of no failure
\* message and of no default rendering of a returned ManagedPassword. (The
\* credential enters the client only through the fetch body, so two runs that
\* differ in the credential alone differ in a text exactly when the text
\* holds the credential.)
CexC12 ==
    \A c \in Callers :
        /\ (Done(c) /\ th[c].result.kind = "raise")
               => ~Contains(th[c].result.exc.msg, Secret)
        /\ (Done(c) /\ th[c].result.kind = "password")
               => ~Contains(Render(th[c].result.password), Secret)

\* call i of the invocation was sent before any active-requests query
BeforeQuery(t, i) == \A j \in 1..(i - 1) : t.calls[j].call # "GET /Requests"

AuthCalls == {"GET /Auth", "POST /Auth/Connect/Token", "POST /Auth/SignAppIn"}

\* C14: get-password-by-request-id sends, apart from authentication, one
\* fetch keyed by the given request id and nothing else (no lookup, no
\* request creation, no query), and on success returns a ManagedPassword
\* with that request id and with account id, system id and expiry unset.
ThmC14 ==
    \A c \in Callers :
        LET t == th[c] IN
        t.op = "get_managed_account_password_by_request_id" =>
            /\ \A i \in 1..Len(t.calls) :
                  \/ t.calls[i].call \in AuthCalls
                  \/ /\ t.calls[i].call = "GET /Credentials/{id}"
                     /\ t.calls[i].key = t.arg
                     /\ i = Len(t.calls)
                     /\ Done(c)
            /\ (Done(c) /\ t.result.kind # "raise")
                  => /\ t.result.kind = "password"
                     /\ LastCall(t) = [call |-> "GET /Credentials/{id}", key |-> t.arg,
                                       out |-> S200]
                     /\ t.result.password.request_id = t.arg
                     /\ t.result.password.account_id = None
                     /\ t.result.password.system_id = None
                     /\ t.result.password.expiration_date = None
            /\ t.created = NoRequest

\* a password was returned for a request id that another requester created
WitC14 ==
    \E c \in Callers :
        /\ th[c].op = "get_managed_account_password_by_request_id"
        /\ Done(c) /\ th[c].result.kind = "password"
        /\ th[c].result.password.password = Secret
        /\ issued >= 1

\* C15: check-in returns success only when its PUT was answered with
\* success; when the PUT is answered with an error status or fails in
\* transport, the operation ends with an API failure that carries the cause.
ThmC15 ==
    \A c \in Callers :
        LET t == th[c] IN
        t.op = "check_in_password" =>
            /\ (Done(c) /\ t.result.kind # "raise")
                  => /\ t.result.kind = "true"
                     /\ LastCall(t) = [call |-> "PUT /Requests/{id}/CheckIn",
                                       key |-> t.arg, out |-> S200]
            /\ \A i \in 1..Len(t.calls) :
                  t.calls[i].call = "PUT /Requests/{id}/CheckIn"
                      => /\ i = Len(t.calls)
                         /\ Done(c)
                         /\ t.calls[i].out = S200 => t.result.kind = "true"
                         /\ t.calls[i].out # S200
                               => /\ Raised(c, ApiException)
                                  /\ t.result.exc.origin = "Failed to check in password: "
                                  /\ t.result.exc.cause = t.calls[i].out

\* the request had ended when its check-in was sent: the PUT was answered 404
WitC15 ==
    /\ th[Solo].op = "check_in_password"
    /\ Raised(Solo, ApiException)
    /\ LastCall(th[Solo]).call = "PUT /Requests/{id}/CheckIn"
    /\ LastCall(th[Solo]).out = S404
    /\ issued >= 1

\* C16, as stated: within one invocation, after a call that failed with
\* anything but a 409 of the request creation no further call is sent, and
\* no call is sent twice. (Stated for a base URL without the digits 409 and
\* for sessions that were usable when they were installed.)
CexC16 ==
    (~Contains(base_url, S409) /\ born_expired = 0) =>
        \A c \in Callers :
            LET t == th[c] IN
            /\ \A i \in 1..Len(t.calls) :
                  (/\ t.calls[i].out # S200
                   /\ ~(t.calls[i].call = "POST /Requests" /\ t.calls[i].out = S409))
                      => i = Len(t.calls)
            /\ \A i, j \in 1..Len(t.calls) :
                  (t.calls[i].call = t.calls[j].call /\ t.calls[i].key = t.calls[j].key)
                      => i = j

\* the client holds a session that is not expired
HoldsUsable == auth_result # NoSession /\ now + Margin < expires_at(auth_result)

\* C17: while the client holds an unexpired session, a session check and a
\* call of authenticate send no authentication request and leave the session
\* as it is; authenticate returns that session.
ThmC17 ==
    [][\A c \in Callers :
          (HoldsUsable /\ (EnsureCheck(c) \/ Authenticate(c)))
              => /\ attempts' = attempts
                 /\ auth_result' = auth_result
                 /\ auth_lock' = auth_lock
                 /\ th'[c].calls = th[c].calls
                 /\ ~InFlight(c)'
                 /\ (th[c].op = "authenticate" /\ Authenticate(c))
                       => /\ Done(c)'
                          /\ th'[c].result.kind = "session"
                          /\ th'[c].result.session = auth_result]_vars

\* authenticate was called on a client that held a usable session and
\* returned it without a request
WitC17 ==
    \E c \in Callers :
        /\ th[c].op = "authenticate"
        /\ ~th[c].fresh
        /\ Done(c) /\ th[c].result.kind = "session"
        /\ th[c].calls = <<>>
        /\ th[c].result.session = auth_result
        /\ HoldsUsable

\* C18: a session check reports a held session expired exactly when its
\* expiry (issuance time + declared lifetime) is at most now + 5 minutes, and
\* usable exactly when the expiry is later than that.
ThmC18 ==
    [][\A c \in Callers :
          (EnsureCheck(c) /\ auth_result # NoSession)
              => LET expiry == auth_result.issued_at + auth_result.expires_in IN
                 /\ (th'[c].apc = "acquire") = (expiry <= now + 300)
                 /\ (th'[c].apc # "acquire") = (expiry > now + 300)]_vars

\* a session check found the held session expired at the boundary: its expiry
\* was exactly now + 5 minutes, after time had passed
WitC18 ==
    \E c \in Callers :
        /\ th[c].apc = "acquire"
        /\ th[c].pc # "authenticate"
        /\ auth_result # NoSession
        /\ auth_result.issued_at + auth_result.expires_in = now + 300
        /\ now > 0

\* C19, as stated: an invocation that ends with a failure during an
\* authentication attempt (its last call is a call of the attempt) ends with
\* an authentication failure that carries the cause.
CexC19 ==
    \A c \in Callers :
        LET t == th[c] IN
        (/\ Done(c) /\ t.result.kind = "raise"
         /\ t.calls # <<>>
         /\ LastCall(t).call \in AuthCalls)
            => /\ t.result.exc.kind = AuthException
               /\ t.result.exc.cause # NoText

\* C20: in key mode the session is stored only when the probe was answered
\* with success; it holds the API key as token, the type PS-Auth and a
\* lifetime of 3600 seconds from its issuance. A failed probe leaves the
\* session the client held as it was.
ThmC20 ==
    [][~use_oauth =>
         /\ auth_result' # auth_result
               => \E c \in Callers :
                     /\ ProbeResponse(c)
                     /\ LastCall(th'[c]) = [call |-> "GET /Auth", key |-> NoText,
                                            out |-> S200]
                     /\ auth_result'.access_token = ApiKey
                     /\ auth_result'.token_type = "PS-Auth"
                     /\ auth_result'.issued_at = now
                     /\ auth_result'.issued_at + auth_result'.expires_in = now + 3600
         /\ \A c \in Callers :
               (ProbeResponse(c) /\ LastCall(th'[c]).out # S200)
                   => auth_result' = auth_result]_vars

\* the probe failed while the client held an expired session, which is
\* still there
WitC20 ==
    /\ ~use_oauth
    /\ auth_result # NoSession
    /\ is_expired(auth_result, now)
    /\ \E c \in Callers :
          /\ Raised(c, AuthException)
          /\ LastCall(th[c]).call = "GET /Auth"
          /\ th[c].result.at = now

\* C21: sign_out called with no session returns True having sent nothing and
\* leaves the session absent; called with a session it sends POST
\* /Auth/SignOut, exactly one call, and when that call is answered with
\* success the session field is absent and the result is True, when it fails
\* the operation raises and the session stays.
ThmC21 ==
    [][\A c \in Callers :
         /\ Invoke(c, "sign_out", NoText) =>
               IF auth_result = NoSession
               THEN /\ Done(c)'
                    /\ th'[c].result.kind = "true"
                    /\ th'[c].calls = <<>>
                    /\ auth_result' = NoSession
               ELSE /\ th'[c].pc = "signout"
                    /\ th'[c].calls = <<>>
                    /\ auth_result' = auth_result
         /\ SignOutResponse(c) =>
               /\ Done(c)'
               /\ Len(th'[c].calls) = 1
               /\ th'[c].calls[1].call = "POST /Auth/SignOut"
               /\ IF th'[c].calls[1].out = S200
                  THEN auth_result' = NoSession /\ th'[c].result.kind = "true"
                  ELSE auth_result' = auth_result /\ Raised(c, ApiException)']_vars

\* a caller signed out of a session with one successful call and the session
\* field is absent
WitC21 ==
    \E c \in Callers :
        /\ Done(c) /\ th[c].op = "sign_out" /\ th[c].result.kind = "true"
        /\ Len(th[c].calls) = 1 /\ th[c].calls[1].out = S200
        /\ attempts > 0
        /\ auth_result = NoSession

\* C22: the session field changes only in a step taken while a caller holds
\* the authentication lock.
CexC22 == [][auth_result' # auth_result => auth_lock \in Callers]_vars

\* C23: a lookup by name with an empty account name, a domain-linked one
\* without a domain name, a local one without a system name, and an account
\* listing with an account name but no system id end, in the step of the
\* invocation itself, with ValueError: no request was sent, authentication
\* was not attempted and the session is what it was.
ThmC23 ==
    [][\A c \in Callers :
         /\ \A a \in NameArguments :
               ( /\ Call(c, "get_managed_account_by_name", a)
                 /\ \/ a[1] = ""
                    \/ a[4] = "True" /\ a[3] = ""
                    \/ a[4] = "False" /\ a[2] = "" )
               => /\ Raised(c, ValueError)'
                  /\ th'[c].calls = <<>>
                  /\ th'[c].tried = 0
                  /\ attempts' = attempts
                  /\ auth_result' = auth_result
         /\ \A a \in ListingArguments :
               ( /\ Call(c, "get_managed_accounts", a)
                 /\ a[2] # "" /\ a[1] = "" )
               => /\ Raised(c, ValueError)'
                  /\ th'[c].calls = <<>>
                  /\ th'[c].tried = 0
                  /\ attempts' = attempts
                  /\ auth_result' = auth_result]_vars

\* a domain-linked lookup without a domain name was refused while a session
\* existed, with nothing sent
WitC23 ==
    \E c \in Callers :
        /\ Raised(c, ValueError)
        /\ th[c].op = "get_managed_account_by_name"
        /\ th[c].arg[1] # "" /\ th[c].arg[4] = "True" /\ th[c].arg[3] = ""
        /\ th[c].calls = <<>>
        /\ auth_result # NoSession

\* an id field of a document that holds a number other than zero
IsSet(v) == v \notin {0, Absent, None}

\* C26: the account returned by a lookup by id or by name has the secondary
\* id as its canonical id when the vault's record held the canonical id as
\* zero and the secondary id non-zero, and keeps a canonical id the record
\* held non-zero; the same for the system id.
ThmC26 ==
    \A c \in Callers :
        ( /\ Done(c)
          /\ th[c].op \in {"get_managed_account_by_id", "get_managed_account_by_name"}
          /\ th[c].result.kind = "account" )
        => LET d == th[c].body.doc
               r == th[c].result.account
           IN /\ (d.ManagedAccountId = 0 /\ IsSet(d.AccountId))
                    => r.managed_account_id = d.AccountId
              /\ IsSet(d.ManagedAccountId) => r.managed_account_id = d.ManagedAccountId
              /\ (d.ManagedSystemId = 0 /\ IsSet(d.SystemId))
                    => r.managed_system_id = d.SystemId
              /\ IsSet(d.ManagedSystemId) => r.managed_system_id = d.ManagedSystemId

\* a lookup by name was answered with the canonical ids sent as zero and
\* returned the secondary ids as canonical
WitC26 ==
    \E c \in Callers :
        /\ Done(c)
        /\ th[c].op = "get_managed_account_by_name"
        /\ th[c].result.kind = "account"
        /\ th[c].body = ObjectBody(ZeroCanonicalDoc)
        /\ th[c].result.account.managed_account_id = AccountId
        /\ th[c].result.account.managed_system_id = SystemId

\* C27: no record returned by the account listing or the system listing has
\* a zero canonical id beside a set, non-zero secondary id.
CexC27 ==
    \A c \in Callers :
        (Done(c) /\ th[c].result.kind = "list")
        => \A i \in 1..Len(th[c].result.items) :
              LET r == th[c].result.items[i]
              IN /\ ~(r.managed_system_id = 0 /\ IsSet(r.system_id))
                 /\ th[c].op = "get_managed_accounts"
                       => ~(r.managed_account_id = 0 /\ IsSet(r.account_id))

\* C28: a listing answered with success returns a list: of the one record
\* when the body is an object, of the n records in the order of the body
\* when it is an array of n objects.
ThmC28 ==
    \A c \in Callers :
        ( /\ Done(c)
          /\ th[c].op \in {"get_managed_accounts", "get_managed_systems"}
          /\ th[c].calls # <<>>
          /\ LastCall(th[c]).out = S200 )
        => LET body == th[c].body
               items == th[c].result.items
               record(doc) == IF th[c].op = "get_managed_accounts"
                              THEN from_dict(doc) ELSE system_from_dict(doc)
           IN /\ th[c].result.kind = "list"
              /\ body.shape = "dict" =>
                    Len(items) = 1 /\ items[1] = record(body.doc)
              /\ body.shape = "list" =>
                    /\ Len(items) = Len(body.docs)
                    /\ \A i \in 1..Len(items) : items[i] = record(body.docs[i])

\* an account listing was answered with an array of two different objects
WitC28 ==
    \E c \in Callers :
        /\ Done(c)
        /\ th[c].op = "get_managed_accounts"
        /\ th[c].result.kind = "list"
        /\ th[c].body.shape = "list"
        /\ Len(th[c].body.docs) = 2
        /\ th[c].body.docs[1] # th[c].body.docs[2]
        /\ Len(th[c].result.items) = 2

\* C24: an operation that ended with ValueError had sent no request.
CexC24 ==
    \A c \in Callers : Raised(c, ValueError) => th[c].calls = <<>>

\* C25: the PasswordRequest an invocation built has a system id that is
\* present and not zero.
CexC25 ==
    \A c \in Callers :
        th[c].account # NoAccount => IsSet(th[c].account.managed_system_id)

\* C29: is_expired of a result with an expiration date reads True exactly
\* when the date is at or before the time of the read plus the margin of
\* five minutes.
CexC29 ==
    \A c \in Callers :
        ( /\ th[c].is_expired.value # "unread"
          /\ th[c].result.password.expiration_date # None )
        => ( th[c].is_expired.value = "True"
               <=> th[c].result.password.expiration_date <= th[c].is_expired.at + Margin )

\* the field a message of validate() names is not present in the options
NamesMissingField(msg, o) ==
    \/ msg = "base_url is required" /\ ~o.base_url
    \/ msg = "api_key is required" /\ ~o.api_key
    \/ msg = "run_as_username is required when use_oauth is False" /\ ~o.run_as_username
    \/ msg = "oauth_client_id is required when use_oauth is True" /\ ~o.oauth_client_id
    \/ msg = "oauth_client_secret is required when use_oauth is True"
          /\ ~o.oauth_client_secret

Constructed(c) == Done(c) /\ th[c].op = "PasswordSafeClient"

\* C30 as stated: construction fails, naming a missing field, exactly when
\* the base URL, the API key or the run-as user name is lacking, or the flag
\* is set and the client id or the client secret is lacking.
CexC30 ==
    \A c \in Callers :
        Constructed(c) =>
            LET o == th[c].options IN
            /\ th[c].calls = <<>>
            /\ Raised(c, ValueError)
                  <=> \/ ~o.base_url \/ ~o.api_key \/ ~o.run_as_username
                      \/ o.use_oauth /\ (~o.oauth_client_id \/ ~o.oauth_client_secret)
            /\ Raised(c, ValueError) => NamesMissingField(th[c].result.exc.origin, o)

\* C30, amended: construction sends nothing and fails with ValueError, naming
\* a missing field, exactly when the base URL is lacking, or the flag is set
\* and the client id or the client secret is lacking, or the flag is not set
\* and the run-as user name or the API key is lacking; otherwise a client is
\* returned, whether or not a run-as password is given.
ThmC30 ==
    \A c \in Callers :
        Constructed(c) =>
            LET o == th[c].options IN
            /\ th[c].calls = <<>>
            /\ Raised(c, ValueError)
                  <=> \/ ~o.base_url
                      \/ o.use_oauth /\ (~o.oauth_client_id \/ ~o.oauth_client_secret)
                      \/ ~o.use_oauth /\ (~o.run_as_username \/ ~o.api_key)
            /\ Raised(c, ValueError) => NamesMissingField(th[c].result.exc.origin, o)
            /\ ~Raised(c, ValueError) => th[c].result.kind = "client"

\* a client was built in the delegated mode from options without an API key,
\* a run-as user name and a run-as password
WitC30 ==
    \E c \in Callers :
        /\ Constructed(c)
        /\ th[c].result.kind = "client"
        /\ th[c].options.use_oauth
        /\ ~th[c].options.api_key
        /\ ~th[c].options.run_as_username
        /\ ~th[c].options.run_as_password

\* C31: the transport is never closed twice; once the block around the
\* client has ended, after its last operation returned or raised, the
\* transport is closed, Session.close() ran exactly once, and the exception
\* of the operation that raised is the one that left the block; close() on a
\* closed client changes nothing.
ThmC31 ==
    /\ transport.closes <= 1
    /\ transport.scope = "exited" =>
          /\ transport.session = "none"
          /\ transport.closes = 1
          /\ transport.reached =
                IF th[Solo].result.kind = "raise" THEN th[Solo].result.exc ELSE NoExc
    /\ transport.session = "none" => close(transport) = transport

\* the block ended because an operation inside it failed, and the transport
\* was closed once
WitC31 ==
    /\ transport.scope = "exited"
    /\ transport.closes = 1
    /\ Raised(Solo, ApiException)
    /\ th[Solo].calls # <<>>
    /\ transport.reached = th[Solo].result.exc

\* C32: within one invocation, a fetch that fails after the request creation
\* succeeded is the last call of the invocation, and the operation ends with
\* the API failure of that fetch.
CexC32 ==
    \A c \in Callers :
        LET t == th[c] IN
        \A i \in 1..Len(t.calls) :
            ( /\ t.calls[i].call = "GET /Credentials/{id}"
              /\ t.calls[i].out # S200
              /\ \E j \in 1..(i - 1) :
                    t.calls[j].call = "POST /Requests" /\ t.calls[j].out = S200 )
            => /\ i = Len(t.calls)
               /\ Done(c) => /\ Raised(c, ApiException)
                              /\ t.result.exc.origin = "Failed to get password: "

\* the i-th call of the invocation is an active-requests query that failed:
\* by transport or status, or answered with a body that cannot be read
QueryFailedAt(t, i) ==
    /\ t.calls[i].call = "GET /Requests"
    /\ t.calls[i].out # S200 \/ t.calls[i].key # NoText

\* C38: when the request creation was answered 409 and the query that
\* follows fails, the query is the last call of the invocation and the
\* operation ends with the API failure of the query, which carries its cause
\* and is not the conflict failure.
ThmC38 ==
    \A c \in Callers :
        LET t == th[c] IN
        \A i \in 1..Len(t.calls) :
            (ConflictAtCreate(t) /\ QueryFailedAt(t, i))
            => /\ i = Len(t.calls)
               /\ Raised(c, ApiException)
               /\ t.result.exc.origin \in
                     {"Failed to check for existing requests: ",
                      "Failed to parse existing requests response",
                      "Failed to parse existing requests: "}
               /\ t.result.exc.cause # NoText
               /\ t.result.exc # ConflictFailure
               /\ t.result.exc # t.exc

\* the request creation met a conflict and the query was answered 500
WitC38 ==
    \E c \in Callers :
        /\ ConflictAtCreate(th[c])
        /\ LastCall(th[c]).call = "GET /Requests"
        /\ LastCall(th[c]).out = S500
        /\ Raised(c, ApiException)
        /\ th[c].result.exc.origin = "Failed to check for existing requests: "

\* C33: while a caller's app sign-in is in flight, no other caller has passed
\* its session check and has a request of its operation in flight.
CexC33 ==
    \A c, d \in Callers :
        ~( /\ c # d
           /\ th[d].apc = "signin"
           /\ th[c].apc = "ready" )

\* the calls of the session manager and of sign-out
SessionCalls ==
    {"GET /Auth", "POST /Auth/Connect/Token", "POST /Auth/SignAppIn", "POST /Auth/SignOut"}

\* a request of a directory or checkout operation of caller c goes out in
\* this step
SendsRequest(c) ==
    /\ Len(th'[c].calls) > Len(th[c].calls)
    /\ th'[c].calls[Len(th'[c].calls)].call \notin SessionCalls

\* C34: no request of a directory or checkout operation goes out after a
\* sign-out succeeded and before an authentication has succeeded again.
CexC34 == [][\A c \in Callers : SendsRequest(c) => ~signed_out]_vars

\* one layer of surrounding quotes removed: at most one quote on each side
StripOneLayer(s) ==
    LET l == IF s # <<>> /\ Head(s) = Quote THEN Tail(s) ELSE s
    IN IF l # <<>> /\ l[Len(l)] = Quote THEN SubSeq(l, 1, Len(l) - 1) ELSE l

\* C35, as stated: a fetch body that is no JSON value is returned as the
\* password with one quote removed on each side where there is one; further
\* quotes stay.
CexC35 ==
    \A c \in Callers :
        LET t == th[c] IN
        (/\ Done(c)
         /\ t.calls # <<>>
         /\ LastCall(t).call = "GET /Credentials/{id}"
         /\ LastCall(t).out = S200
         /\ JsonKind(t.content) = "JSONDecodeError")
            => /\ t.result.kind = "password"
               /\ t.result.password.password = StripOneLayer(t.content)

\* caller c's sign_out ended with the failure of its call
SignOutRaised(c) ==
    /\ Done(c)
    /\ th[c].op = "sign_out"
    /\ th[c].calls # <<>>
    /\ LastCall(th[c]).out # S200

\* C36: a sign-out call that fails (transport failure or error status) ends
\* sign_out with BeyondTrustApiException that carries the cause and a message
\* starting "Failed to sign out: ", and leaves the session field as it was;
\* while the session of a failed sign-out is still held, a sign_out that is
\* invoked sends the call again.
ThmC36 ==
    [][\A c \in Callers :
         /\ (SignOutResponse(c) /\ LastCall(th'[c]).out # S200) =>
               /\ Raised(c, ApiException)'
               /\ th'[c].result.exc.cause = LastCall(th'[c]).out
               /\ th'[c].result.exc.cause \in Failures
               /\ th'[c].result.exc.origin = "Failed to sign out: "
               /\ auth_result' = auth_result
         /\ (/\ \E d \in Callers : SignOutRaised(d)
             /\ HasSession(auth_result)
             /\ Invoke(c, "sign_out", NoText)) =>
               /\ th'[c].pc = "signout"
               /\ th'[c].apc = "ready"]_vars

\* in a run of an authentication and two sign-outs, one sign-out failed and
\* the other one sent its call and was answered with success
WitC36 ==
    \E c, d \in Callers :
        /\ SignOutRaised(c)
        /\ ncalls = 3
        /\ th[d].op = "sign_out"
        /\ Done(d)
        /\ th[d].result.kind = "true"
        /\ Len(th[d].calls) = 1
        /\ auth_result = NoSession

\* the invocation created a request and the fetch that followed failed, or
\* was answered with a body that holds no JSON document and no literal string
FetchAfterCreateFailed(t) ==
    /\ t.created # NoRequest
    /\ \E i \in 1..Len(t.calls) :
          /\ t.calls[i].call = "GET /Credentials/{id}"
          /\ t.calls[i].key = t.created.request_id
          /\ \/ t.calls[i].out # S200
             \/ JsonKind(t.content) \notin {"dict", "JSONDecodeError"}

\* C37, as stated: get_managed_account_password_by_id sends no check-in; an
\* invocation whose request creation succeeded and whose fetch failed ends
\* with a failure and leaves its request active, and an invocation that then
\* meets the conflict and lists the active requests takes up that request.
CexC37 ==
    \A c \in Callers :
        LET t == th[c] IN
        /\ ~(\E i \in 1..Len(t.calls) : t.calls[i].call = "PUT /Requests/{id}/CheckIn")
        /\ (Done(c) /\ FetchAfterCreateFailed(t)) =>
              /\ t.result.kind = "raise"
              /\ IsActive(t.created.request_id)
              /\ \A d \in Callers \ {c} :
                    (ConflictAtCreate(th[d]) /\ QueryAnswered(th[d]) /\ th[d].listed # <<>>)
                        => th[d].req = t.created

\* caller c waits for the authentication lock
Waiting(c) == th[c].apc = "acquire"

\* C39: the lock is held only by a caller whose authentication request is in
\* flight, so every exit of authenticate has released it; a held lock is
\* eventually free, every caller that waits for the lock eventually has taken
\* it, and a caller that waits after an authentication failed starts an
\* attempt of its own or returns the session another attempt stored.
ThmC39 ==
    /\ [](\A c \in Callers : auth_lock = c => InFlight(c))
    /\ (~LockAvailable) ~> LockAvailable
    /\ \A c \in Callers : Waiting(c) ~> ~Waiting(c)
    /\ \A c \in Callers :
          (Waiting(c) /\ auth_failed > 0)
              ~> (th[c].tried > 0 \/ (Done(c) /\ th[c].result.kind = "session"))

\* after a failed authentication one caller holds the lock with a request in
\* flight and another caller waits for it
WitC39 ==
    \E c, d \in Callers :
        /\ c # d
        /\ auth_failed > 0
        /\ auth_lock = d
        /\ InFlight(d)
        /\ Waiting(c)

\* the session s as it would be with refresh token r
WithRefreshToken(s, r) == [s EXCEPT !.refresh_token = r]

\* a token request of caller c is logged in this step
TokenCallLogged(c) ==
    /\ Len(th'[c].calls) > Len(th[c].calls)
    /\ LastCall(th'[c]).call = "POST /Auth/Connect/Token"

====
